---- MODULE Spec2Model ----
(***************************************************************************)
(* Model of src/ffi/arrow_stubs.c: the Arrow C GLib stubs of the columnar  *)
(* table engine (the transform operators, group-by, aggregation with the   *)
(* result reconstruction, the buffer export and the release operations).   *)
(*                                                                         *)
(* Values.  A cell is a tagged tuple: <<"null">>, <<"int", v>>,            *)
(* <<"dbl", n, d>> (the double n/d, d > 0, in lowest terms),               *)
(* <<"bool", b>> or <<"str", s>>.  A C string is a sequence of one-byte    *)
(* tokens; US stands for the byte 0x1F.  Row indices are 0-based as in the *)
(* C code; TLA+ sequences are 1-based, so row r of a sequence is s[r + 1]. *)
(*                                                                         *)
(* State.  table is the GArrowTable the host's table handle points to,     *)
(* ref_count its GObject reference count (0: the object is destroyed) and  *)
(* table_handle tells whether the host still holds its handle.  gts maps   *)
(* the GroupedTable pointers to the GroupedTables behind them and gt is    *)
(* the GroupedTable of the last grouping call.  result is the value the    *)
(* last stub returned, op the call it answered, and sharing tells, for     *)
(* each column of a returned table, which column object of the input it    *)
(* holds a reference to (0: an array the call built).                      *)
(***************************************************************************)
EXTENDS Integers, Sequences, FiniteSets, TLC

VARIABLES table, gt, result, op, gts, ref_count, table_handle, sharing

vars == <<table, gt, result, op, gts, ref_count, table_handle, sharing>>

\* Bounds of the model.
MaxRows == 2
ChunkRows == 1
MaxGroupings == 2

\* ----------------------------------------------------------------------
\* Generic helpers
\* ----------------------------------------------------------------------

Abs(x) == IF x < 0 THEN -x ELSE x

RECURSIVE Gcd(_, _)
Gcd(a, b) == IF b = 0 THEN a ELSE Gcd(b, a % b)

RECURSIVE Pow10(_)
Pow10(k) == IF k <= 0 THEN 1 ELSE 10 * Pow10(k - 1)

\* The double n/d as a normalised cell value.
Dbl(n, d) ==
    LET g == Gcd(Abs(n), Abs(d))
        s == IF d < 0 THEN -1 ELSE 1
    IN  <<"dbl", (s * n) \div g, (s * d) \div g>>

DblAdd(x, y) == Dbl(x[2] * y[3] + y[2] * x[3], x[3] * y[3])

DblDivInt(x, k) == Dbl(x[2], x[3] * k)

DblZero == <<"dbl", 0, 1>>

NullCell == <<"null">>

US == "<US>"

Digit(k) == CASE k = 0 -> "0" [] k = 1 -> "1" [] k = 2 -> "2" [] k = 3 -> "3"
              [] k = 4 -> "4" [] k = 5 -> "5" [] k = 6 -> "6" [] k = 7 -> "7"
              [] k = 8 -> "8" [] OTHER -> "9"

IsDigit(c) == c \in {"0", "1", "2", "3", "4", "5", "6", "7", "8", "9"}

DigitVal(c) == CHOOSE k \in 0..9 : Digit(k) = c

\* Decimal digits of a natural number, most significant first.
RECURSIVE NatDigits(_)
NatDigits(m) == IF m < 10 THEN <<Digit(m)>>
                ELSE NatDigits(m \div 10) \o <<Digit(m % 10)>>

\* printf("%" G_GINT64_FORMAT, v)
FormatInt64(v) == IF v < 0 THEN <<"-">> \o NatDigits(-v) ELSE NatDigits(v)

\* ----------------------------------------------------------------------
\* C library conversions used by the stubs
\* ----------------------------------------------------------------------

\* Significant digits printed by "%g" (its default precision).
GPrecision == 6

RoundHalfEven(a, b) ==
    LET q == a \div b
        r == a % b
    IN  IF 2 * r < b THEN q
        ELSE IF 2 * r > b THEN q + 1
        ELSE IF q % 2 = 0 THEN q ELSE q + 1

\* The decimal exponent e of the positive number a/b: 10^e <= a/b < 10^(e+1).
RECURSIVE ExpUp(_, _, _)
ExpUp(a, b, e) == IF a < b * Pow10(e + 1) THEN e ELSE ExpUp(a, b, e + 1)

RECURSIVE ExpDown(_, _, _)
ExpDown(a, b, e) == IF a * Pow10(-e) >= b THEN e ELSE ExpDown(a, b, e - 1)

Exp10(a, b) == IF a >= b THEN ExpUp(a, b, 0) ELSE ExpDown(a, b, -1)

RECURSIVE StripZeros(_)
StripZeros(s) == IF s # <<>> /\ s[Len(s)] = "0"
                 THEN StripZeros(SubSeq(s, 1, Len(s) - 1)) ELSE s

RECURSIVE Zeros(_)
Zeros(k) == IF k <= 0 THEN <<>> ELSE <<"0">> \o Zeros(k - 1)

\* printf("%g", n/d): GPrecision significant digits (round half to even on
\* the exact value), trailing zeros removed, exponent form when the decimal
\* exponent is below -4 or at least GPrecision.
FormatG(x) ==
    LET n == x[2]
        d == x[3]
        a == Abs(n)
        sign == IF n < 0 THEN <<"-">> ELSE <<>>
        e0 == Exp10(a, d)
        sh == GPrecision - 1 - e0
        m0 == IF sh >= 0 THEN RoundHalfEven(a * Pow10(sh), d)
              ELSE RoundHalfEven(a, d * Pow10(-sh))
        carry == m0 = Pow10(GPrecision)
        M == IF carry THEN Pow10(GPrecision - 1) ELSE m0
        X == IF carry THEN e0 + 1 ELSE e0
        D == NatDigits(M)
        frac(s) == IF StripZeros(s) = <<>> THEN <<>> ELSE <<".">> \o StripZeros(s)
        expo == <<"e", IF X < 0 THEN "-" ELSE "+">>
                \o (IF Abs(X) < 10 THEN <<"0">> ELSE <<>>) \o NatDigits(Abs(X))
    IN  IF n = 0 THEN <<"0">>
        ELSE IF X < -4 \/ X >= GPrecision
             THEN sign \o <<D[1]>> \o frac(SubSeq(D, 2, GPrecision)) \o expo
        ELSE IF X >= 0
             THEN sign \o SubSeq(D, 1, X + 1) \o frac(SubSeq(D, X + 2, GPrecision))
        ELSE sign \o <<"0", ".">> \o Zeros(-X - 1) \o StripZeros(D)

RECURSIVE DigitsPrefixLen(_)
DigitsPrefixLen(s) == IF s = <<>> \/ ~IsDigit(Head(s)) THEN 0
                      ELSE 1 + DigitsPrefixLen(Tail(s))

RECURSIVE DigitsToNat(_)
DigitsToNat(s) == IF s = <<>> THEN 0
                  ELSE 10 * DigitsToNat(SubSeq(s, 1, Len(s) - 1)) + DigitVal(s[Len(s)])

Drop(s, k) == SubSeq(s, k + 1, Len(s))

HasSign(s) == s # <<>> /\ Head(s) \in {"-", "+"}

\* g_ascii_strtoll(s, NULL, 10): optional sign, then the longest run of
\* decimal digits; 0 when there is none.
g_ascii_strtoll(s) ==
    LET body == IF HasSign(s) THEN Tail(s) ELSE s
        k == DigitsPrefixLen(body)
        v == DigitsToNat(SubSeq(body, 1, k))
    IN  IF HasSign(s) /\ Head(s) = "-" THEN -v ELSE v

\* g_ascii_strtod(s, NULL): optional sign, digits, optional fraction,
\* optional exponent; 0.0 when no number starts the string.
g_ascii_strtod(s) ==
    LET neg == HasSign(s) /\ Head(s) = "-"
        body == IF HasSign(s) THEN Tail(s) ELSE s
        ki == DigitsPrefixLen(body)
        afterInt == Drop(body, ki)
        hasDot == afterInt # <<>> /\ Head(afterInt) = "."
        kf == IF hasDot THEN DigitsPrefixLen(Tail(afterInt)) ELSE 0
        afterFrac == IF hasDot THEN Drop(afterInt, kf + 1) ELSE afterInt
        mant == DigitsToNat(SubSeq(body, 1, ki)) * Pow10(kf)
                + (IF hasDot THEN DigitsToNat(SubSeq(Tail(afterInt), 1, kf)) ELSE 0)
        hasE == afterFrac # <<>> /\ Head(afterFrac) \in {"e", "E"}
        expBody == IF hasE THEN Tail(afterFrac) ELSE <<>>
        expNeg == HasSign(expBody) /\ Head(expBody) = "-"
        expDigits == IF HasSign(expBody) THEN Tail(expBody) ELSE expBody
        ke == DigitsPrefixLen(expDigits)
        ev == IF ke = 0 THEN 0 ELSE DigitsToNat(SubSeq(expDigits, 1, ke))
        net == (IF expNeg THEN -ev ELSE ev) - kf
        num == IF net >= 0 THEN mant * Pow10(net) ELSE mant
        den == IF net >= 0 THEN 1 ELSE Pow10(-net)
    IN  IF ki + kf = 0 THEN DblZero
        ELSE Dbl(IF neg THEN -num ELSE num, den)

\* ----------------------------------------------------------------------
\* Tables, columns and the Arrow GLib calls the stubs rely on
\* ----------------------------------------------------------------------

Types == {"Int64", "Float64", "Boolean", "String"}

\* Values a cell of each type takes in the model (besides null).
Int64Values == {-3, 12}
Float64Values == {Dbl(100000, 1), Dbl(200001, 2)}
StringValues == {<<"N", "A">>, <<"N", "A", US, "N", "A">>}

CellsOf(type) ==
    {NullCell} \cup
    CASE type = "Int64" -> {<<"int", v>> : v \in Int64Values}
      [] type = "Float64" -> Float64Values
      [] type = "Boolean" -> {<<"bool", b>> : b \in BOOLEAN}
      [] OTHER -> {<<"str", s>> : s \in StringValues}

IsNull(cell) == cell = NullCell

\* The array type of a non-null cell.
TypeOfCell(cell) ==
    CASE cell[1] = "int" -> "Int64"
      [] cell[1] = "dbl" -> "Float64"
      [] cell[1] = "bool" -> "Boolean"
      [] OTHER -> "String"

ColumnNames == <<"a", "b">>

\* A name that is in no schema.
MissingName == "zz"

\* The chunk lengths of a column of n rows read in blocks of ChunkRows rows
\* (one empty chunk when there are no rows).
RECURSIVE Layout(_)
Layout(n) == IF n <= ChunkRows THEN <<n>> ELSE <<ChunkRows>> \o Layout(n - ChunkRows)

\* The logical cells `cells` cut into chunks of the given lengths.
RECURSIVE Cut(_, _)
Cut(cells, lens) ==
    IF lens = <<>> THEN <<>>
    ELSE <<SubSeq(cells, 1, Head(lens))>> \o Cut(Drop(cells, Head(lens)), Tail(lens))

\* A chunked array: the type of its arrays and its chunks.
ChunkedArray(dtype, chunks) == [dtype |-> dtype, chunks |-> chunks]

RECURSIVE Flatten(_)
Flatten(chunks) == IF chunks = <<>> THEN <<>> ELSE Head(chunks) \o Flatten(Tail(chunks))

\* The logical cells of a chunked array.
CellsOfColumn(col) == Flatten(col.chunks)

\* Every choice of n cells for each of the first k columns of types ty.
RECURSIVE CellSeqs(_, _, _)
CellSeqs(ty, n, k) ==
    IF k = 0 THEN {<<>>}
    ELSE {Append(p, c) : p \in CellSeqs(ty, n, k - 1), c \in [1..n -> CellsOf(ty[k])]}

\* The tables ingestion can hand to the engine: every column has the type
\* its schema field declares and all columns have the same number of rows.
Tables ==
    UNION {
      UNION {
        { [schema |-> [i \in 1..Len(ColumnNames) |->
                         [name |-> ColumnNames[i], type |-> ty[i]]],
           columns |-> [i \in 1..Len(ColumnNames) |->
                         ChunkedArray(ty[i], Cut(cs[i], lay))]]
          : cs \in CellSeqs(ty, n, Len(ColumnNames)), lay \in {Layout(n)} }
        : n \in 0..MaxRows }
      : ty \in [1..Len(ColumnNames) -> Types] }

\* garrow_table_get_n_columns
garrow_table_get_n_columns(t) == Len(t.columns)

\* garrow_table_get_n_rows
garrow_table_get_n_rows(t) ==
    IF t.columns = <<>> THEN 0 ELSE Len(CellsOfColumn(t.columns[1]))

\* garrow_schema_get_field_index falling back to the first field when no
\* field has the name.
garrow_schema_get_field_index_fallsBack(schema, name) ==
    LET hits == {i \in 1..Len(schema) : schema[i].name = name}
    IN  IF Cardinality(hits) = 1 THEN (CHOOSE i \in hits : TRUE) - 1
        ELSE IF hits = {} /\ schema # <<>> THEN 0 ELSE -1

\* garrow_schema_get_field_index: the 0-based position of the field of that
\* name, -1 when no field or more than one field has the name.
garrow_schema_get_field_index(schema, name) ==
    LET hits == {i \in 1..Len(schema) : schema[i].name = name}
    IN  IF Cardinality(hits) = 1 THEN (CHOOSE i \in hits : TRUE) - 1 ELSE -1

NullTable == [schema |-> <<>>, columns |-> <<>>, null |-> TRUE]

IsNullTable(t) == "null" \in DOMAIN t

\* garrow_table_new_chunked_arrays: the table of the schema and the columns,
\* or NULL when the table does not validate (a column whose type is not the
\* type of its schema field, or columns of different lengths).  The library
\* validates the table it builds and reports a mismatch as an error; the
\* source relies on it in rebuild_table_with_column (lines 498-502), which
\* replaces the schema field so that it matches the type of the new column,
\* and build_aggregation_result returns Val_none on the NULL (1047-1052).
garrow_table_new_chunked_arrays(schema, columns) ==
    IF /\ Len(schema) = Len(columns)
       /\ \A i \in 1..Len(columns) : columns[i].dtype = schema[i].type
       /\ \A i, j \in 1..Len(columns) :
             Len(CellsOfColumn(columns[i])) = Len(CellsOfColumn(columns[j]))
    THEN [schema |-> schema, columns |-> columns]
    ELSE NullTable

\* The walk over the chunks of cell_value_as_string and get_numeric_value:
\* the chunk holding logical row `offset` and the offset within it, or chunk
\* 0 when the row is past the last chunk.
RECURSIVE LocateChunk(_, _, _)
LocateChunk(chunks, c, offset) ==
    IF c > Len(chunks) THEN [chunk |-> 0, offset |-> offset]
    ELSE IF offset < Len(chunks[c]) THEN [chunk |-> c, offset |-> offset]
    ELSE LocateChunk(chunks, c + 1, offset - Len(chunks[c]))

True == <<"t", "r", "u", "e">>
False == <<"f", "a", "l", "s", "e">>
NA == <<"N", "A">>

\* cell_value_as_string(table, col_idx, row_idx); col_idx and row_idx 0-based.
cell_value_as_string(t, col_idx, row_idx) ==
    LET chunked == t.columns[col_idx + 1]
        at == LocateChunk(chunked.chunks, 1, row_idx)
        cell == chunked.chunks[at.chunk][at.offset + 1]
    IN  IF at.chunk = 0 THEN <<>>
        ELSE IF IsNull(cell) THEN NA
        ELSE IF chunked.dtype = "Int64" THEN FormatInt64(cell[2])
        ELSE IF chunked.dtype = "Float64" THEN FormatG(cell)
        ELSE IF chunked.dtype = "Boolean" THEN (IF cell[2] THEN True ELSE False)
        ELSE IF chunked.dtype = "String" THEN cell[2]
        ELSE <<>>

\* ----------------------------------------------------------------------
\* Group-by
\* ----------------------------------------------------------------------

NoGrouping == [live |-> FALSE]

\* The GroupedTable pointers malloc hands out.
GroupedPtrs == 1..MaxGroupings

\* The pointers behind which a GroupedTable lives.
LivePtrs == {p \in GroupedPtrs : gts[p].live}

\* g_object_ref with the reference left out.
g_object_ref_forgotten(count) == count

\* g_object_ref / g_object_unref on the reference count of an object.
g_object_ref(count) == count + 1

g_object_unref(count) == count - 1

\* The composite key of row r: the renderings of the key columns joined by
\* the byte 0x1F (the inner loop over k of caml_arrow_table_group_by).
RECURSIVE CompositeKey(_, _, _, _)
CompositeKey(t, key_indices, r, k) ==
    IF k = 0 THEN <<>>
    ELSE CompositeKey(t, key_indices, r, k - 1)
         \o (IF k > 1 THEN <<US>> ELSE <<>>)
         \o cell_value_as_string(t, key_indices[k], r)

\* row_keys of row r: the rendering of each key column.
RowKeys(t, key_indices, r) ==
    [k \in 1..Len(key_indices) |-> cell_value_as_string(t, key_indices[k], r)]

\* g_hash_table_lookup(group_map, key_str): the stored group_idx + 1, or 0
\* (NULL) when no group has that composite key.
HashLookup(group_order, key_str) ==
    IF \E g \in 1..Len(group_order) : group_order[g] = key_str
    THEN CHOOSE g \in 1..Len(group_order) : group_order[g] = key_str
    ELSE 0

EmptyGroups == [group_order |-> <<>>, group_rows |-> <<>>, group_key_vals |-> <<>>]

\* GroupRow with the append to an existing group left out.
GroupRow_dropsRow(t, key_indices, st, r) ==
    LET key_str == CompositeKey(t, key_indices, r, Len(key_indices))
        group_idx_ptr == HashLookup(st.group_order, key_str)
    IN  IF group_idx_ptr = 0
        THEN [group_order |-> Append(st.group_order, key_str),
              group_rows |-> Append(st.group_rows, <<r>>),
              group_key_vals |-> Append(st.group_key_vals, RowKeys(t, key_indices, r))]
        ELSE st

\* GroupRow with a new group put in front of the groups found so far.
GroupRow_newGroupFirst(t, key_indices, st, r) ==
    LET key_str == CompositeKey(t, key_indices, r, Len(key_indices))
        group_idx_ptr == HashLookup(st.group_order, key_str)
    IN  IF group_idx_ptr = 0
        THEN [group_order |-> <<key_str>> \o st.group_order,
              group_rows |-> <<<<r>>>> \o st.group_rows,
              group_key_vals |-> <<RowKeys(t, key_indices, r)>> \o st.group_key_vals]
        ELSE [st EXCEPT !.group_rows[group_idx_ptr] = Append(@, r)]

\* One iteration of the loop over the rows: row r joins the group of its
\* composite key, or opens the next group.
GroupRow(t, key_indices, st, r) ==
    LET key_str == CompositeKey(t, key_indices, r, Len(key_indices))
        group_idx_ptr == HashLookup(st.group_order, key_str)
    IN  IF group_idx_ptr = 0
        THEN [group_order |-> Append(st.group_order, key_str),
              group_rows |-> Append(st.group_rows, <<r>>),
              group_key_vals |-> Append(st.group_key_vals, RowKeys(t, key_indices, r))]
        ELSE [st EXCEPT !.group_rows[group_idx_ptr] = Append(@, r)]

\* The loop over rows 0 .. nrows-1.
RECURSIVE GroupRows(_, _, _)
GroupRows(t, key_indices, nrows) ==
    IF nrows = 0 THEN EmptyGroups
    ELSE GroupRow(t, key_indices, GroupRows(t, key_indices, nrows - 1), nrows - 1)

\* The GroupedTable built at the end of caml_arrow_table_group_by.
GroupedTable(t, key_names, key_indices) ==
    LET st == GroupRows(t, key_indices, garrow_table_get_n_rows(t))
        n_groups == Len(st.group_order)
    IN  [live |-> TRUE,
         n_groups |-> n_groups,
         n_keys |-> Len(key_names),
         group_row_indices |-> st.group_rows,
         group_sizes |-> [g \in 1..n_groups |-> Len(st.group_rows[g])],
         group_key_values |-> st.group_key_vals,
         key_names |-> key_names]

\* The key lists the host passes to group_by.
KeyLists ==
    {<<>>, <<"a">>, <<"b", "a">>, <<"a", MissingName>>, <<MissingName, "a">>}

Op(name, keys, col) == [name |-> name, keys |-> keys, col |-> col]

None == <<"None">>
Unit == <<"Unit">>
SomeGrouping == <<"Some", "grouping">>
SomeTable(t) == <<"Some", "table", t>>

\* No column of the input is shared with what the call returns.
NoSharing == <<>>

\* The test of the key count: a list of no key names is turned down before
\* anything is allocated or retained.
EmptyKeyList_never(n_keys) == FALSE

EmptyKeyList(n_keys) == n_keys = 0

\* caml_arrow_table_group_by(table, key_names).  The host passes a table
\* handle it still holds; the new GroupedTable is malloc'ed at a pointer no
\* live GroupedTable has (the least one).
caml_arrow_table_group_by(key_names) ==
    LET key_indices == [i \in 1..Len(key_names) |->
                          garrow_schema_get_field_index(table.schema, key_names[i])]
        free_ptrs == GroupedPtrs \ LivePtrs
        ptr == CHOOSE p \in free_ptrs : \A q \in free_ptrs : p <= q
    IN  /\ table_handle
        /\ op' = Op("group_by", key_names, "")
        /\ IF EmptyKeyList(Len(key_names)) \/ \E i \in 1..Len(key_names) : key_indices[i] < 0
           THEN /\ gt' = gt
                /\ gts' = gts
                /\ ref_count' = ref_count
                /\ result' = None
           ELSE /\ free_ptrs # {}
                /\ gt' = GroupedTable(table, key_names, key_indices)
                /\ gts' = [gts EXCEPT ![ptr] = gt']
                /\ ref_count' = g_object_ref(ref_count)
                /\ result' = SomeGrouping
        /\ sharing' = NoSharing
        /\ UNCHANGED <<table, table_handle>>

\* caml_arrow_grouped_table_free(grouped_ptr) / grouped_table_free
caml_arrow_grouped_table_free(grouped_ptr) ==
    /\ gts[grouped_ptr].live
    /\ gts' = [gts EXCEPT ![grouped_ptr] = NoGrouping]
    /\ gt' = NoGrouping
    /\ ref_count' = g_object_unref(ref_count)
    /\ result' = Unit
    /\ op' = Op("grouped_table_free", <<>>, "")
    /\ sharing' = NoSharing
    /\ UNCHANGED <<table, table_handle>>

\* caml_arrow_table_free(table): the host gives up its table handle.
caml_arrow_table_free ==
    /\ table_handle
    /\ table_handle' = FALSE
    /\ ref_count' = g_object_unref(ref_count)
    /\ result' = Unit
    /\ op' = Op("table_free", <<>>, "")
    /\ sharing' = NoSharing
    /\ UNCHANGED <<table, gt, gts>>

\* ----------------------------------------------------------------------
\* Aggregation
\* ----------------------------------------------------------------------

\* get_numeric_value(table, col_idx, row_idx): the value as a double and
\* the is_null flag.
get_numeric_value(t, col_idx, row_idx) ==
    LET chunked == t.columns[col_idx + 1]
        at == LocateChunk(chunked.chunks, 1, row_idx)
        cell == chunked.chunks[at.chunk][at.offset + 1]
    IN  IF at.chunk = 0 THEN [is_null |-> TRUE, val |-> DblZero]
        ELSE IF IsNull(cell) THEN [is_null |-> TRUE, val |-> DblZero]
        ELSE IF chunked.dtype = "Int64" THEN [is_null |-> FALSE, val |-> Dbl(cell[2], 1)]
        ELSE IF chunked.dtype = "Float64" THEN [is_null |-> FALSE, val |-> cell]
        ELSE [is_null |-> TRUE, val |-> DblZero]

\* A double array built by a GArrowDoubleArrayBuilder: null where nulls[g].
DoubleArray(values, nulls) ==
    [g \in 1..Len(values) |-> IF nulls[g] THEN NullCell ELSE values[g]]

Field(name, type) == [name |-> name, type |-> type]

\* The key column k of the result: an Int64 array of g_ascii_strtoll of the
\* key strings, a Float64 array of g_ascii_strtod of them, or ("default to
\* string") a String array of the key strings themselves.
KeyColumn(g, dtype, k) ==
    IF dtype = "Int64"
    THEN ChunkedArray("Int64",
           <<[i \in 1..g.n_groups |-> <<"int", g_ascii_strtoll(g.group_key_values[i][k])>>]>>)
    ELSE IF dtype = "Float64"
    THEN ChunkedArray("Float64",
           <<[i \in 1..g.n_groups |-> g_ascii_strtod(g.group_key_values[i][k])]>>)
    ELSE ChunkedArray("String",
           <<[i \in 1..g.n_groups |-> <<"str", g.group_key_values[i][k]>>]>>)

\* build_aggregation_result(gt, agg_col_name, agg_values, agg_nulls); t is
\* gt->table.
build_aggregation_result(g, t, agg_col_name, agg_values, agg_nulls) ==
    LET ncols == g.n_keys + 1
        dtype(k) == t.schema[garrow_schema_get_field_index(t.schema, g.key_names[k]) + 1].type
        columns == [k \in 1..ncols |->
                      IF k <= g.n_keys THEN KeyColumn(g, dtype(k), k)
                      ELSE ChunkedArray("Float64", <<DoubleArray(agg_values, agg_nulls)>>)]
        fields == [k \in 1..ncols |->
                      IF k <= g.n_keys THEN Field(g.key_names[k], dtype(k))
                      ELSE Field(agg_col_name, "Float64")]
    IN  garrow_table_new_chunked_arrays(fields, columns)

\* The inner loop of caml_arrow_group_sum over the first k rows of a group.
RECURSIVE SumLoop(_, _, _, _)
SumLoop(t, col_idx, rows, k) ==
    IF k = 0 THEN [sum |-> DblZero, all_null |-> TRUE]
    ELSE LET acc == SumLoop(t, col_idx, rows, k - 1)
             v == get_numeric_value(t, col_idx, rows[k])
         IN  IF ~v.is_null
             THEN [sum |-> DblAdd(acc.sum, v.val), all_null |-> FALSE]
             ELSE acc

\* The inner loop of caml_arrow_group_mean over the first k rows of a group.
RECURSIVE MeanLoop(_, _, _, _)
MeanLoop(t, col_idx, rows, k) ==
    IF k = 0 THEN [sum |-> DblZero, count |-> 0]
    ELSE LET acc == MeanLoop(t, col_idx, rows, k - 1)
             v == get_numeric_value(t, col_idx, rows[k])
         IN  IF ~v.is_null
             THEN [sum |-> DblAdd(acc.sum, v.val), count |-> acc.count + 1]
             ELSE acc

\* The option a stub returns for a table pointer.
TableOption(t) == IF IsNullTable(t) THEN None ELSE SomeTable(t)

\* caml_arrow_group_sum(grouped_ptr, col_name)
caml_arrow_group_sum(grouped_ptr, col_name) ==
    LET g_t == gts[grouped_ptr]
        col_idx == garrow_schema_get_field_index(table.schema, col_name)
        acc(g) == SumLoop(table, col_idx, g_t.group_row_indices[g], g_t.group_sizes[g])
        sums == [g \in 1..g_t.n_groups |-> acc(g).sum]
        nulls == [g \in 1..g_t.n_groups |-> acc(g).all_null]
    IN  /\ g_t.live
        /\ op' = Op("group_sum", <<>>, col_name)
        /\ result' = IF col_idx < 0 THEN None
                     ELSE TableOption(build_aggregation_result(g_t, table, col_name, sums, nulls))
        /\ gt' = g_t
        /\ sharing' = NoSharing
        /\ UNCHANGED <<table, gts, ref_count, table_handle>>

\* caml_arrow_group_mean(grouped_ptr, col_name)
caml_arrow_group_mean(grouped_ptr, col_name) ==
    LET g_t == gts[grouped_ptr]
        col_idx == garrow_schema_get_field_index(table.schema, col_name)
        acc(g) == MeanLoop(table, col_idx, g_t.group_row_indices[g], g_t.group_sizes[g])
        means == [g \in 1..g_t.n_groups |->
                    IF acc(g).count > 0 THEN DblDivInt(acc(g).sum, acc(g).count)
                    ELSE DblZero]
        nulls == [g \in 1..g_t.n_groups |-> ~(acc(g).count > 0)]
    IN  /\ g_t.live
        /\ op' = Op("group_mean", <<>>, col_name)
        /\ result' = IF col_idx < 0 THEN None
                     ELSE TableOption(build_aggregation_result(g_t, table, col_name, means, nulls))
        /\ gt' = g_t
        /\ sharing' = NoSharing
        /\ UNCHANGED <<table, gts, ref_count, table_handle>>

\* caml_arrow_group_count(grouped_ptr)
caml_arrow_group_count(grouped_ptr) ==
    LET g_t == gts[grouped_ptr]
        counts == [g \in 1..g_t.n_groups |-> Dbl(g_t.group_sizes[g], 1)]
        nulls == [g \in 1..g_t.n_groups |-> FALSE]
    IN  /\ g_t.live
        /\ op' = Op("group_count", <<>>, "")
        /\ result' = TableOption(build_aggregation_result(g_t, table, "n", counts, nulls))
        /\ gt' = g_t
        /\ sharing' = NoSharing
        /\ UNCHANGED <<table, gts, ref_count, table_handle>>

\* ----------------------------------------------------------------------
\* Projection
\* ----------------------------------------------------------------------

\* The exception caml_failwith(msg) raises.
Failure(msg) == <<"Failure", msg>>

\* The table behind the handle the host passes: its first table ("table")
\* or the table the last call returned ("result").
TableOf(v_ptr) == IF v_ptr = "table" THEN table ELSE result[3]

\* The columns of the input the projected table holds references to:
\* columns_arr[i] = garrow_table_get_column_data(table, indices[i]).
ProjectSharing(indices) == [i \in 1..Len(indices) |-> indices[i] + 1]

\* The table caml_arrow_table_project builds from the resolved indices.
ProjectTable(t, indices) ==
    LET fields_list == [i \in 1..Len(indices) |-> t.schema[indices[i] + 1]]
        columns_arr == [i \in 1..Len(indices) |-> t.columns[indices[i] + 1]]
    IN  garrow_table_new_chunked_arrays(fields_list, columns_arr)

\* caml_arrow_table_project(v_ptr, names).  The host goes on with the table
\* whose handle it passes.
caml_arrow_table_project(v_ptr, names) ==
    LET t == TableOf(v_ptr)
        indices == [i \in 1..Len(names) |-> garrow_schema_get_field_index(t.schema, names[i])]
        unresolved == \E i \in 1..Len(names) : indices[i] < 0
        projected == ProjectTable(t, indices)
    IN  /\ table_handle
        /\ v_ptr = "result" => (Len(result) = 3 /\ result[2] = "table")
        /\ table' = t
        /\ op' = Op("project", names, "")
        /\ result' = IF unresolved THEN Failure("Column not found")
                     ELSE TableOption(projected)
        /\ sharing' = IF unresolved \/ IsNullTable(projected) THEN NoSharing
                      ELSE ProjectSharing(indices)
        /\ UNCHANGED <<gt, gts, ref_count, table_handle>>

\* The name lists the host passes to project.
ProjectLists == {<<"a">>, <<"b", "a">>, <<"a", "a">>, <<"a", MissingName>>}

\* ----------------------------------------------------------------------
\* Filter
\* ----------------------------------------------------------------------

\* BuildMask with the last element of the OCaml array left out.
BuildMask_offByOne(v_mask) == SubSeq(v_mask, 1, Len(v_mask) - 1)

\* The boolean array built from the OCaml bool array: one value appended
\* for each of its Wosize_val(v_mask) elements, no null.
BuildMask(v_mask) == [i \in 1..Len(v_mask) |-> v_mask[i]]

\* The cells whose mask element is true, in their order.
RECURSIVE FilterCells(_, _)
FilterCells(cells, mask) ==
    IF cells = <<>> THEN <<>>
    ELSE (IF Head(mask) THEN <<Head(cells)>> ELSE <<>>)
         \o FilterCells(Tail(cells), Tail(mask))

\* garrow_table_filter truncating or padding (with false) the mask to the
\* rows of the table.
garrow_table_filter_fitsMask(t, mask_array) ==
    LET n == garrow_table_get_n_rows(t)
        fitted == [i \in 1..n |-> IF i <= Len(mask_array) THEN mask_array[i] ELSE FALSE]
    IN  [schema |-> t.schema,
         columns |-> [c \in 1..Len(t.columns) |->
                        ChunkedArray(t.columns[c].dtype,
                                     <<FilterCells(CellsOfColumn(t.columns[c]), fitted)>>)]]

\* garrow_table_filter(table, mask, NULL): an error ("Filter inputs must all
\* be the same length") unless the mask has one element per row; else every
\* column filtered by the mask, chunk by chunk.
garrow_table_filter(t, mask_array) ==
    LET n == garrow_table_get_n_rows(t)
        start(col, k) == Len(Flatten(SubSeq(col.chunks, 1, k - 1)))
    IN  IF Len(mask_array) # n THEN NullTable
        ELSE [schema |-> t.schema,
              columns |-> [c \in 1..Len(t.columns) |->
                 ChunkedArray(t.columns[c].dtype,
                    [k \in 1..Len(t.columns[c].chunks) |->
                       FilterCells(t.columns[c].chunks[k],
                                   SubSeq(mask_array, start(t.columns[c], k) + 1,
                                          start(t.columns[c], k) + Len(t.columns[c].chunks[k])))])]]

FilterOp(mask) == [name |-> "filter", keys |-> <<>>, col |-> "", mask |-> mask]

\* The columns of the input a filtered table shares: the library hands the
\* columns of a table without rows on as they are.
FilterSharing(t) ==
    [c \in 1..Len(t.columns) |-> IF garrow_table_get_n_rows(t) = 0 THEN c ELSE 0]

\* caml_arrow_table_filter_mask(table, mask)
caml_arrow_table_filter_mask(v_mask) ==
    LET filtered == garrow_table_filter(table, BuildMask(v_mask))
    IN  /\ table_handle
        /\ op' = FilterOp(v_mask)
        /\ result' = TableOption(filtered)
        /\ sharing' = IF IsNullTable(filtered) THEN NoSharing ELSE FilterSharing(table)
        /\ UNCHANGED <<table, gt, gts, ref_count, table_handle>>

\* The masks the host passes: up to one element more than a table has rows.
Masks == UNION {[1..k -> BOOLEAN] : k \in 0..(MaxRows + 1)}

\* ----------------------------------------------------------------------
\* Sort
\* ----------------------------------------------------------------------

\* The byte of a one-character token of a string value.
ByteOf(c) == CASE c = US -> 31 [] c = "A" -> 65 [] c = "N" -> 78 [] OTHER -> 0

\* s before t in the byte order of strings.
RECURSIVE StrLess(_, _)
StrLess(s, t) ==
    IF t = <<>> THEN FALSE
    ELSE IF s = <<>> THEN TRUE
    ELSE IF ByteOf(Head(s)) # ByteOf(Head(t)) THEN ByteOf(Head(s)) < ByteOf(Head(t))
    ELSE StrLess(Tail(s), Tail(t))

\* x before y in the order of their type; x and y are not null.
CellLess(x, y) ==
    CASE x[1] = "int" -> x[2] < y[2]
      [] x[1] = "dbl" -> x[2] * y[3] < y[2] * x[3]
      [] x[1] = "bool" -> ~x[2] /\ y[2]
      [] OTHER -> StrLess(x[2], y[2])

\* SortOrder with the two orders exchanged.
SortOrder_exchanged(ascending) == IF ascending THEN "descending" ELSE "ascending"

\* The GArrowSortOrder of the sort key.
SortOrder(ascending) == IF ascending THEN "ascending" ELSE "descending"

\* x sorts strictly before y: a value before a null, values in the order.
SortsBefore(x, y, order) ==
    IF IsNull(x) THEN FALSE
    ELSE IF IsNull(y) THEN TRUE
    ELSE IF order = "ascending" THEN CellLess(x, y) ELSE CellLess(y, x)

\* Row r put into the sorted indices: before the first row it sorts
\* strictly before, so rows that sort equal stay in their order.
RECURSIVE InsertRow(_, _, _, _)
InsertRow(cells, sorted, r, order) ==
    IF sorted = <<>> THEN <<r>>
    ELSE IF SortsBefore(cells[r + 1], cells[Head(sorted) + 1], order)
         THEN <<r>> \o sorted
         ELSE <<Head(sorted)>> \o InsertRow(cells, Tail(sorted), r, order)

\* The stable sort of the rows 0 .. n-1 by their cells.
RECURSIVE StableSort(_, _, _)
StableSort(cells, n, order) ==
    IF n = 0 THEN <<>>
    ELSE InsertRow(cells, StableSort(cells, n - 1, order), n - 1, order)

\* The NULL the library returns for the indices (no row has index -1).
NullIndices == <<-1>>

\* garrow_table_sort_indices(table, options) with the one sort key
\* (col_name, order): an error when no field or more than one has the
\* name; else the row indices of the stable sort of the column, nulls at
\* the end.
garrow_table_sort_indices(t, col_name, order) ==
    LET idx == garrow_schema_get_field_index(t.schema, col_name)
    IN  IF idx < 0 THEN NullIndices
        ELSE StableSort(CellsOfColumn(t.columns[idx + 1]), garrow_table_get_n_rows(t), order)

\* garrow_table_take(table, indices, NULL): the rows at the indices, in
\* every column.
garrow_table_take(t, indices) ==
    [schema |-> t.schema,
     columns |-> [c \in 1..Len(t.columns) |->
                    ChunkedArray(t.columns[c].dtype,
                       <<[k \in 1..Len(indices) |->
                            CellsOfColumn(t.columns[c])[indices[k] + 1]]>>)]]

SortOp(col, ascending) ==
    [name |-> "sort", keys |-> <<>>, col |-> col, ascending |-> ascending]

\* caml_arrow_table_sort(table, col_name, ascending)
caml_arrow_table_sort(col_name, ascending) ==
    LET indices == garrow_table_sort_indices(table, col_name, SortOrder(ascending))
    IN  /\ table_handle
        /\ op' = SortOp(col_name, ascending)
        /\ result' = IF indices = NullIndices THEN None
                     ELSE TableOption(garrow_table_take(table, indices))
        /\ sharing' = IF indices = NullIndices THEN NoSharing
                      ELSE [c \in 1..Len(table.columns) |-> 0]
        /\ UNCHANGED <<table, gt, gts, ref_count, table_handle>>

\* ----------------------------------------------------------------------
\* Buffer export
\* ----------------------------------------------------------------------

\* How far an array may start into its backing buffer, and how far the
\* buffer may go on past the array's last element (in elements).
MaxOffset == 1
MaxSlack == 1

\* A GArrowArray: the cells of the array and where its backing buffers hold
\* them: `offset` elements before the first cell and `slack` elements after
\* the last belong to the buffers and not to the array.
Array(dtype, cells, offset, slack) ==
    [dtype |-> dtype, cells |-> cells, offset |-> offset, slack |-> slack]

SomeArray(array) == <<"Some", "array", array>>
SomeBigarray(ba) == <<"Some", "bigarray", ba>>

\* An 8-byte word of a buffer that holds no element of the array.
Foreign == <<"foreign">>

\* The word the values buffer of an Int64 or Float64 array holds for a
\* cell; the builders store a zero in the slot of a null.
ValueWord(dtype, cell) ==
    IF ~IsNull(cell) THEN cell
    ELSE IF dtype = "Int64" THEN <<"int", 0>> ELSE DblZero

Repeat(x, n) == [i \in 1..n |-> x]

\* The bytes of buffer 1 of the array ("value data"): 8 for each element of
\* an Int64 or Float64 array, the 4-byte offsets (one more than elements)
\* of a String array, the bits of a Boolean array.
ValueDataSize(array) ==
    LET n == array.offset + Len(array.cells) + array.slack
    IN  CASE array.dtype \in {"Int64", "Float64"} -> 8 * n
          [] array.dtype = "String" -> 4 * (n + 1)
          [] OTHER -> (n + 7) \div 8

NullBuffer == [size |-> 0, words |-> <<>>, null |-> TRUE]

\* garrow_array_get_value_data_buffer(array): buffer 1 of the array, whole,
\* as a sequence of 8-byte words (the words of a String or Boolean array
\* are no numbers: Foreign); NULL for an array of a type without a second
\* buffer, which none of the four column types is.
garrow_array_get_value_data_buffer(array) ==
    IF array.dtype \notin Types THEN NullBuffer
    ELSE [size |-> ValueDataSize(array),
          words |-> IF array.dtype \in {"Int64", "Float64"}
                    THEN Repeat(Foreign, array.offset)
                         \o [i \in 1..Len(array.cells) |-> ValueWord(array.dtype, array.cells[i])]
                         \o Repeat(Foreign, array.slack)
                    ELSE Repeat(Foreign, ValueDataSize(array) \div 8)]

\* An 8-byte word read as an element of kind "int" or "dbl": the number it
\* holds when it holds one of that kind, else the bits taken for one.
WordAs(kind, word) == IF word[1] = kind THEN word ELSE <<"bits", kind, word>>

\* caml_ba_alloc(kind | CAML_BA_C_LAYOUT | CAML_BA_EXTERNAL, 1, data, dims):
\* a bigarray of n_elements elements over the memory at data, not a copy.
caml_ba_alloc(kind, words, n_elements) ==
    [kind |-> kind,
     external |-> TRUE,
     data |-> [i \in 1..n_elements |-> WordAs(kind, words[i])]]

ExportOp(name, col, array) == [name |-> name, keys |-> <<>>, col |-> col, array |-> array]

\* caml_arrow_table_get_column_data_by_name(table, col_name): the array of
\* chunk 0 of the column; offset and slack tell where ingestion left the
\* array in its buffers.
caml_arrow_table_get_column_data_by_name(col_name, offset, slack) ==
    LET idx == garrow_schema_get_field_index(table.schema, col_name)
        chunked == table.columns[idx + 1]
        array == Array(chunked.dtype, chunked.chunks[1], offset, slack)
    IN  /\ table_handle
        /\ op' = ExportOp("get_column_data_by_name", col_name, <<>>)
        /\ result' = IF idx < 0 THEN None ELSE SomeArray(array)
        /\ sharing' = NoSharing
        /\ UNCHANGED <<table, gt, gts, ref_count, table_handle>>

\* The host holds the array a lookup by name has just returned.
HostHoldsArray == Len(result) = 3 /\ result[2] = "array"

\* The body the two bigarray stubs share: the whole value data buffer as
\* size / 8 elements of the kind.
ArrayToBigarray(name, kind) ==
    LET array == result[3]
        buffer == garrow_array_get_value_data_buffer(array)
        n_elements == buffer.size \div 8
    IN  /\ HostHoldsArray
        /\ op' = ExportOp(name, op.col, array)
        /\ result' = IF buffer = NullBuffer THEN None
                     ELSE SomeBigarray(caml_ba_alloc(kind, buffer.words, n_elements))
        /\ sharing' = NoSharing
        /\ UNCHANGED <<table, gt, gts, ref_count, table_handle>>

\* caml_arrow_float64_array_to_bigarray(array)
caml_arrow_float64_array_to_bigarray == ArrayToBigarray("float64_array_to_bigarray", "dbl")

\* caml_arrow_int64_array_to_bigarray(array)
caml_arrow_int64_array_to_bigarray == ArrayToBigarray("int64_array_to_bigarray", "int")

\* ----------------------------------------------------------------------
\* Scalar arithmetic
\* ----------------------------------------------------------------------

\* IEEE 754 doubles that are no rationals: a zero denominator.
PosInf == <<"dbl", 1, 0>>
NegInf == <<"dbl", -1, 0>>
NaN == <<"dbl", 0, 0>>

IsFinite(x) == x[3] # 0

DblSub(x, y) == Dbl(x[2] * y[3] - y[2] * x[3], x[3] * y[3])

DblMul(x, y) == Dbl(x[2] * y[2], x[3] * y[3])

\* x / y of finite doubles: x/0 is +Inf or -Inf, 0/0 is NaN.
DblDiv(x, y) ==
    IF y[2] = 0
    THEN (IF x[2] > 0 THEN PosInf ELSE IF x[2] < 0 THEN NegInf ELSE NaN)
    ELSE Dbl(x[2] * y[3], x[3] * y[2])

\* The op codes of arrow_scalar_op_impl: 0=add, 1=multiply, 2=subtract,
\* 3=divide.
OpCodes == 0..3

\* ScalarResult with the operands of the subtraction exchanged.
ScalarResult_subReversed(op_code, val, scalar_val) ==
    CASE op_code = 0 -> DblAdd(val, scalar_val)
      [] op_code = 1 -> DblMul(val, scalar_val)
      [] op_code = 2 -> DblSub(scalar_val, val)
      [] op_code = 3 -> DblDiv(val, scalar_val)
      [] OTHER -> val

\* The switch of apply_double_scalar_op: result = val op scalar_val.
ScalarResult(op_code, val, scalar_val) ==
    CASE op_code = 0 -> DblAdd(val, scalar_val)
      [] op_code = 1 -> DblMul(val, scalar_val)
      [] op_code = 2 -> DblSub(val, scalar_val)
      [] op_code = 3 -> DblDiv(val, scalar_val)
      [] OTHER -> val

NullColumn == [dtype |-> "", chunks |-> <<>>, null |-> TRUE]

IsNullColumn(col) == "null" \in DOMAIN col

\* The loop of apply_double_scalar_op over the elements of one chunk: the
\* double array built, and ok = FALSE when a non-null element is met in an
\* array that is neither a double nor an int64 array.
ScalarChunk(dtype, chunk, scalar_val, op_code) ==
    [ok |-> \A i \in 1..Len(chunk) :
               IsNull(chunk[i]) \/ dtype \in {"Float64", "Int64"},
     array |-> [i \in 1..Len(chunk) |->
                 IF IsNull(chunk[i]) THEN NullCell
                 ELSE IF dtype = "Float64" THEN ScalarResult(op_code, chunk[i], scalar_val)
                 ELSE IF dtype = "Int64"
                      THEN ScalarResult(op_code, Dbl(chunk[i][2], 1), scalar_val)
                 ELSE NullCell]]

\* apply_double_scalar_op(chunked, scalar_val, op_code): NULL when a chunk is
\* not ok or when there is no chunk.
apply_double_scalar_op(chunked, scalar_val, op_code) ==
    LET done == [c \in 1..Len(chunked.chunks) |->
                   ScalarChunk(chunked.dtype, chunked.chunks[c], scalar_val, op_code)]
    IN  IF (\E c \in 1..Len(done) : ~done[c].ok) \/ done = <<>>
        THEN NullColumn
        ELSE ChunkedArray("Float64", [c \in 1..Len(done) |-> done[c].array])

\* The rebuild with idx taken for a position counted from one.
rebuild_table_with_column_fromOne(t, idx, new_col) ==
    LET ncols == Len(t.schema)
        fields == [i \in 1..ncols |->
                     IF i = idx THEN Field(t.schema[i].name, new_col.dtype)
                     ELSE t.schema[i]]
        columns_arr == [i \in 1..ncols |->
                          IF i = idx THEN new_col ELSE t.columns[i]]
    IN  garrow_table_new_chunked_arrays(fields, columns_arr)

\* rebuild_table_with_column(table, idx, new_col); idx 0-based.
rebuild_table_with_column(t, idx, new_col) ==
    LET ncols == Len(t.schema)
        fields == [i \in 1..ncols |->
                     IF i = idx + 1 THEN Field(t.schema[i].name, new_col.dtype)
                     ELSE t.schema[i]]
        columns_arr == [i \in 1..ncols |->
                          IF i = idx + 1 THEN new_col ELSE t.columns[i]]
    IN  garrow_table_new_chunked_arrays(fields, columns_arr)

\* The columns of the input the rebuilt table holds references to.
RebuildSharing(t, idx) == [i \in 1..Len(t.schema) |-> IF i = idx + 1 THEN 0 ELSE i]

ScalarOp(name, col, scalar, op_code) ==
    [name |-> name, keys |-> <<>>, col |-> col, scalar |-> scalar, op_code |-> op_code]

\* arrow_scalar_op_impl(table, col_name, scalar, op_code), called as `name`.
arrow_scalar_op_impl(name, col_name, scalar_val, op_code) ==
    LET idx == garrow_schema_get_field_index(table.schema, col_name)
        result_col == apply_double_scalar_op(table.columns[idx + 1], scalar_val, op_code)
        new_table == rebuild_table_with_column(table, idx, result_col)
        failed == idx < 0 \/ IsNullColumn(result_col) \/ IsNullTable(new_table)
    IN  /\ table_handle
        /\ op' = ScalarOp(name, col_name, scalar_val, op_code)
        /\ result' = IF failed THEN None ELSE SomeTable(new_table)
        /\ sharing' = IF failed THEN NoSharing ELSE RebuildSharing(table, idx)
        /\ UNCHANGED <<table, gt, gts, ref_count, table_handle>>

caml_arrow_compute_add_scalar(col_name, scalar_val) ==
    arrow_scalar_op_impl("add_scalar", col_name, scalar_val, 0)

caml_arrow_compute_multiply_scalar(col_name, scalar_val) ==
    arrow_scalar_op_impl("multiply_scalar", col_name, scalar_val, 1)

caml_arrow_compute_subtract_scalar(col_name, scalar_val) ==
    arrow_scalar_op_impl("subtract_scalar", col_name, scalar_val, 2)

caml_arrow_compute_divide_scalar(col_name, scalar_val) ==
    arrow_scalar_op_impl("divide_scalar", col_name, scalar_val, 3)

\* The scalars the host passes.
Scalars == {Dbl(2, 1), DblZero}

\* The column names the host passes to the aggregations.
TargetNames == {"a", "b", MissingName}

\* The host takes one aggregate from a Grouping it has just obtained: the
\* aggregation stubs write nothing but their return value, so a second
\* aggregate from the same Grouping starts from the same Grouping and table.
HostHoldsFreshGrouping == gt.live /\ result = SomeGrouping

\* The host holds no Grouping: in Spec it works with one Grouping at a time.
HostHoldsNoGrouping == LivePtrs = {}

\* The state the engine starts from: a table that ingestion handed over, its
\* one reference held by the host's handle, and no Grouping.
InitOn(tables) ==
    /\ table \in tables
    /\ gt = NoGrouping
    /\ gts = [p \in GroupedPtrs |-> NoGrouping]
    /\ ref_count = 1
    /\ table_handle = TRUE
    /\ result = Unit
    /\ op = Op("init", <<>>, "")
    /\ sharing = NoSharing

Init == InitOn(Tables)

Next ==
    \/ HostHoldsNoGrouping /\ \E key_names \in KeyLists : caml_arrow_table_group_by(key_names)
    \/ HostHoldsFreshGrouping /\ \E p \in LivePtrs, col_name \in TargetNames : caml_arrow_group_sum(p, col_name)
    \/ HostHoldsFreshGrouping /\ \E p \in LivePtrs, col_name \in TargetNames : caml_arrow_group_mean(p, col_name)
    \/ HostHoldsFreshGrouping /\ \E p \in LivePtrs : caml_arrow_group_count(p)
    \/ \E p \in LivePtrs : caml_arrow_grouped_table_free(p)

Spec == Init /\ [][Next]_vars

\* The host calls a transform operator on the table ingestion handed over:
\* the transform stubs write nothing but their return value, so a call after
\* another one starts from the same table.
HostHoldsFreshTable == op.name = "init"

\* Projections of the table and of the tables projections return.
ProjectNext ==
    \E v_ptr \in {"table", "result"}, names \in ProjectLists :
        caml_arrow_table_project(v_ptr, names)

ProjectSpec == Init /\ [][ProjectNext]_vars

\* The scalar arithmetic stubs on a table.
ScalarNext ==
    \/ HostHoldsFreshTable /\ \E col_name \in TargetNames, k \in Scalars :
          caml_arrow_compute_add_scalar(col_name, k)
    \/ HostHoldsFreshTable /\ \E col_name \in TargetNames, k \in Scalars :
          caml_arrow_compute_multiply_scalar(col_name, k)
    \/ HostHoldsFreshTable /\ \E col_name \in TargetNames, k \in Scalars :
          caml_arrow_compute_subtract_scalar(col_name, k)
    \/ HostHoldsFreshTable /\ \E col_name \in TargetNames, k \in Scalars :
          caml_arrow_compute_divide_scalar(col_name, k)

\* Filtering the table by a mask.
FilterNext == HostHoldsFreshTable /\ \E v_mask \in Masks : caml_arrow_table_filter_mask(v_mask)

FilterSpec == Init /\ [][FilterNext]_vars

\* Sorting the table by a column, in either direction.
SortNext ==
    HostHoldsFreshTable /\ \E col_name \in TargetNames, ascending \in BOOLEAN :
        caml_arrow_table_sort(col_name, ascending)

SortSpec == Init /\ [][SortNext]_vars

ScalarSpec == Init /\ [][ScalarNext]_vars

\* The tables of LifecycleSpec: the tables with an Int64 and a Float64
\* column (what a table holds has no part in who holds a reference to it).
LifecycleTables ==
    {t \in Tables : t.schema[1].type = "Int64" /\ t.schema[2].type = "Float64"}

\* The key lists of LifecycleSpec: one that groups, one with an unresolved
\* name and the list of no names.
LifecycleKeys == {<<"a">>, <<MissingName, "a">>, <<>>}

\* The host creates, uses and releases Groupings of the table and releases
\* its table handle, in any order.
LifecycleNext ==
    \/ \E key_names \in LifecycleKeys : caml_arrow_table_group_by(key_names)
    \/ \E p \in LivePtrs : caml_arrow_group_sum(p, "b")
    \/ \E p \in LivePtrs : caml_arrow_group_mean(p, "b")
    \/ \E p \in LivePtrs : caml_arrow_group_count(p)
    \/ \E p \in LivePtrs : caml_arrow_grouped_table_free(p)
    \/ caml_arrow_table_free

LifecycleSpec == InitOn(LifecycleTables) /\ [][LifecycleNext]_vars

\* The tables of ExportSpec: the tables whose second column is an Int64
\* column (the first takes every type).
ExportTables == {t \in Tables : t.schema[2].type = "Int64"}

\* The host looks a column up by name and turns the array it gets into a
\* Float64 or an Int64 view.
ExportNext ==
    \/ HostHoldsFreshTable /\ \E col_name \in TargetNames, offset \in 0..MaxOffset, slack \in 0..MaxSlack :
          caml_arrow_table_get_column_data_by_name(col_name, offset, slack)
    \/ caml_arrow_float64_array_to_bigarray
    \/ caml_arrow_int64_array_to_bigarray

ExportSpec == InitOn(ExportTables) /\ [][ExportNext]_vars

\* The name lists of the calls of NamesSpec: an unresolved name in the last
\* and in the first position.
NameLists == {<<"b", "a">>, <<"a", MissingName>>, <<MissingName, "a">>}

\* The operators that take column names, each called with names the schema
\* has and with a name it has not.
NamesNext ==
    \/ HostHoldsNoGrouping /\ \E key_names \in NameLists : caml_arrow_table_group_by(key_names)
    \/ HostHoldsFreshGrouping /\ \E p \in LivePtrs, col_name \in TargetNames : caml_arrow_group_sum(p, col_name)
    \/ HostHoldsFreshGrouping /\ \E p \in LivePtrs, col_name \in TargetNames : caml_arrow_group_mean(p, col_name)
    \/ HostHoldsFreshTable /\ \E names \in NameLists : caml_arrow_table_project("table", names)
    \/ HostHoldsFreshTable /\ \E col_name \in TargetNames : caml_arrow_compute_add_scalar(col_name, Dbl(2, 1))
    \/ HostHoldsFreshTable /\ \E col_name \in TargetNames : caml_arrow_compute_multiply_scalar(col_name, Dbl(2, 1))
    \/ HostHoldsFreshTable /\ \E col_name \in TargetNames : caml_arrow_compute_subtract_scalar(col_name, Dbl(2, 1))
    \/ HostHoldsFreshTable /\ \E col_name \in TargetNames : caml_arrow_compute_divide_scalar(col_name, Dbl(2, 1))

NamesSpec == Init /\ [][NamesNext]_vars

\* ----------------------------------------------------------------------
\* Properties
\* ----------------------------------------------------------------------

NRows == garrow_table_get_n_rows(table)

\* The cell of column c (1-based) at row r (0-based) of the source table,
\* read from the logical column.
SourceCell(c, r) == CellsOfColumn(table.columns[c])[r + 1]

\* The schema position (1-based) of the column named n.
ColumnOf(n) == CHOOSE c \in 1..Len(table.schema) : table.schema[c].name = n

\* The schema position (1-based) of key column k of the Grouping.
KeyColumnOf(k) == ColumnOf(gt.key_names[k])

\* The (group, position) pairs of the Grouping's row-index lists.
Slots == UNION {{<<g, i>> : i \in 1..Len(gt.group_row_indices[g])} : g \in 1..gt.n_groups}

MemberRows(g) == {gt.group_row_indices[g][i] : i \in 1..Len(gt.group_row_indices[g])}

SameGroup(r1, r2) == \E g \in 1..gt.n_groups : r1 \in MemberRows(g) /\ r2 \in MemberRows(g)

\* The state in which group_by has just returned a Grouping.
GroupBySucceeded == op.name = "group_by" /\ result = SomeGrouping /\ gt.live

\* C1: after a successful group_by every row index 0..num_rows-1 is in
\* exactly one group's row-index list, and no group is empty.
C1_GroupsPartitionRows ==
    GroupBySucceeded =>
      /\ gt.n_keys >= 1
      /\ Len(gt.group_row_indices) = gt.n_groups
      /\ \A g \in 1..gt.n_groups :
            /\ gt.group_row_indices[g] # <<>>
            /\ gt.group_sizes[g] = Len(gt.group_row_indices[g])
      /\ \A s \in Slots : gt.group_row_indices[s[1]][s[2]] \in 0..(NRows - 1)
      /\ \A r \in 0..(NRows - 1) :
            Cardinality({s \in Slots : gt.group_row_indices[s[1]][s[2]] = r}) = 1

\* C1 witness: a Grouping over two keys of a table of several rows, with a
\* group of more than one row.
C1_Witness ==
    /\ GroupBySucceeded /\ gt.n_keys = 2 /\ NRows >= 2
    /\ \E g \in 1..gt.n_groups : gt.group_sizes[g] >= 2

\* The rendering of a cell by its type.
RenderedCell(cell) ==
    CASE IsNull(cell) -> NA
      [] cell[1] = "int" -> FormatInt64(cell[2])
      [] cell[1] = "dbl" -> FormatG(cell)
      [] cell[1] = "bool" -> (IF cell[2] THEN True ELSE False)
      [] OTHER -> cell[2]

\* The rendering of row r in key column k of the Grouping, from the logical
\* column.
Rendered(k, r) == RenderedCell(SourceCell(KeyColumnOf(k), r))

\* C2: two rows are in the same group if and only if, for each key column
\* taken separately, their rendered values are identical.
C2_SameGroupIffSameRenderings ==
    GroupBySucceeded =>
      \A r1, r2 \in 0..(NRows - 1) :
         SameGroup(r1, r2) <=> \A k \in 1..gt.n_keys : Rendered(k, r1) = Rendered(k, r2)

\* C3: for a String key column, a row with a null key is never in the same
\* group as a row whose key is a non-null string.
C3_NullKeyApartFromStrings ==
    GroupBySucceeded =>
      \A k \in 1..gt.n_keys :
         table.schema[KeyColumnOf(k)].type = "String" =>
           \A r1, r2 \in 0..(NRows - 1) :
              (IsNull(SourceCell(KeyColumnOf(k), r1)) /\ ~IsNull(SourceCell(KeyColumnOf(k), r2)))
                => ~SameGroup(r1, r2)

\* The composite key of row r under the Grouping's keys.
KeyOfRow(r) ==
    CompositeKey(table,
                 [k \in 1..gt.n_keys |-> garrow_schema_get_field_index(table.schema, gt.key_names[k])],
                 r, gt.n_keys)

\* The rows that show a composite key for the first time in the scan.
FirstOccurrences == {r \in 0..(NRows - 1) : \A q \in 0..(r - 1) : KeyOfRow(q) # KeyOfRow(r)}

\* C4: groups are numbered in first-occurrence order: group g starts at the
\* g-th row of the scan that shows a new key, so the smallest row of group g
\* is below the smallest row of group g+1, and each group's rows ascend.
C4_FirstOccurrenceOrder ==
    GroupBySucceeded =>
      /\ gt.n_groups = Cardinality(FirstOccurrences)
      /\ \A g \in 1..gt.n_groups :
            /\ gt.group_row_indices[g][1] \in FirstOccurrences
            /\ Cardinality({r \in FirstOccurrences : r < gt.group_row_indices[g][1]}) = g - 1
            /\ \A r \in MemberRows(g) : gt.group_row_indices[g][1] <= r
            /\ \A i, j \in 1..Len(gt.group_row_indices[g]) :
                  i < j => gt.group_row_indices[g][i] < gt.group_row_indices[g][j]
      /\ \A g \in 1..(gt.n_groups - 1) :
            gt.group_row_indices[g][1] < gt.group_row_indices[g + 1][1]

\* C4 witness: a Grouping of a table of several rows with at least two
\* groups.
C4_Witness == GroupBySucceeded /\ NRows >= 2 /\ gt.n_groups >= 2

\* ---- aggregation ----

ResultIsTable == Len(result) = 3 /\ result[2] = "table"

ResultTable == result[3]

IsAggregation == op.name \in {"group_sum", "group_mean", "group_count"}

TargetExists == \E c \in 1..Len(table.schema) : table.schema[c].name = op.col

TargetType == table.schema[ColumnOf(op.col)].type

\* The cell of column c (1-based) at row g (1-based) of the result table.
ResultCell(c, g) == CellsOfColumn(ResultTable.columns[c])[g]

\* The aggregate of group g in the result table: its last column.
AggCell(g) == ResultCell(Len(ResultTable.columns), g)

\* The member rows of group g that are not null in column c.
NonNullRows(g, c) == {r \in MemberRows(g) : ~IsNull(SourceCell(c, r))}

\* A non-null Int64 or Float64 cell widened to a double.
AsDouble(cell) == IF cell[1] = "int" THEN Dbl(cell[2], 1) ELSE cell

\* The sum of column c over the set of rows S.
RECURSIVE SumOfRows(_, _)
SumOfRows(S, c) ==
    IF S = {} THEN DblZero
    ELSE LET r == CHOOSE x \in S : TRUE
         IN  DblAdd(AsDouble(SourceCell(c, r)), SumOfRows(S \ {r}, c))

\* The aggregate column holds one cell per group.
OneAggregatePerGroup == Len(CellsOfColumn(ResultTable.columns[Len(ResultTable.columns)])) = gt.n_groups

\* Each group's aggregate is the sum of its non-null target values, null
\* exactly when it has none.
SumColumnRight ==
    /\ OneAggregatePerGroup
    /\ \A g \in 1..gt.n_groups :
          LET S == NonNullRows(g, ColumnOf(op.col))
          IN  AggCell(g) = IF S = {} THEN NullCell ELSE SumOfRows(S, ColumnOf(op.col))

\* Each group's aggregate is the sum of its non-null target values divided
\* by their number, null exactly when it has none.
MeanColumnRight ==
    /\ OneAggregatePerGroup
    /\ \A g \in 1..gt.n_groups :
          LET S == NonNullRows(g, ColumnOf(op.col))
          IN  AggCell(g) = IF S = {} THEN NullCell
                           ELSE DblDivInt(SumOfRows(S, ColumnOf(op.col)), Cardinality(S))

RECURSIVE SumOfAggCells(_)
SumOfAggCells(g) == IF g = 0 THEN DblZero ELSE DblAdd(AggCell(g), SumOfAggCells(g - 1))

\* Each group's aggregate is its number of rows, never null, and the counts
\* add up to the number of rows of the table.
CountColumnRight ==
    /\ OneAggregatePerGroup
    /\ \A g \in 1..gt.n_groups :
          /\ ~IsNull(AggCell(g))
          /\ AggCell(g) = Dbl(Cardinality(MemberRows(g)), 1)
    /\ SumOfAggCells(gt.n_groups) = Dbl(NRows, 1)

NumericTarget == op.name \in {"group_sum", "group_mean"} /\ TargetExists
                 /\ TargetType \in {"Int64", "Float64"}

\* C5: group_sum on a Grouping and an Int64 or Float64 target column
\* yields, for each group, the sum of the non-null target values of its
\* rows, and null exactly for the groups whose target values are all null.
C5_GroupSumYieldsSums ==
    (op.name = "group_sum" /\ NumericTarget) => (ResultIsTable /\ SumColumnRight)

\* C5, for the calls that return a table: its aggregate column holds the
\* sums.
C5_ReturnedSumsRight ==
    (op.name = "group_sum" /\ NumericTarget /\ ResultIsTable) => SumColumnRight

\* C6: group_mean on a Grouping and an Int64 or Float64 target column
\* yields, for each group, the sum of its non-null target values divided by
\* their number, and null exactly for the groups with none.
C6_GroupMeanYieldsMeans ==
    (op.name = "group_mean" /\ NumericTarget) => (ResultIsTable /\ MeanColumnRight)

\* C6, for the calls that return a table: its aggregate column holds the
\* means.
C6_ReturnedMeansRight ==
    (op.name = "group_mean" /\ NumericTarget /\ ResultIsTable) => MeanColumnRight

\* C7: group_count yields, for each group, its number of rows, never null,
\* and the counts add up to the table's number of rows.
C7_GroupCountYieldsSizes ==
    op.name = "group_count" => (ResultIsTable /\ CountColumnRight)

\* C7, for the calls that return a table: its aggregate column holds the
\* group sizes.
C7_ReturnedCountsRight ==
    (op.name = "group_count" /\ ResultIsTable) => CountColumnRight

\* C8: group_sum and group_mean on a target column that exists and is
\* Boolean or String fail: they return no result table.
C8_NonNumericTargetFails ==
    (op.name \in {"group_sum", "group_mean"} /\ TargetExists
       /\ TargetType \in {"Boolean", "String"}) => result = None

\* The name of the aggregate column of the call.
AggName == IF op.name = "group_count" THEN "n" ELSE op.col

\* The shape of a result table: the key columns in the order of the key
\* names, then one Float64 aggregate column; one row per group.
ResultShapeRight ==
    /\ Len(ResultTable.schema) = gt.n_keys + 1
    /\ Len(ResultTable.columns) = gt.n_keys + 1
    /\ \A k \in 1..gt.n_keys : ResultTable.schema[k].name = gt.key_names[k]
    /\ ResultTable.schema[gt.n_keys + 1] = Field(AggName, "Float64")
    /\ ResultTable.columns[gt.n_keys + 1].dtype = "Float64"
    /\ \A c \in 1..(gt.n_keys + 1) : Len(CellsOfColumn(ResultTable.columns[c])) = gt.n_groups

\* Row g of the result holds, in each key column, the value the rows of
\* group g have in that key column of the source table.
ResultKeysRight ==
    \A g \in 1..gt.n_groups : \A k \in 1..gt.n_keys : \A r \in MemberRows(g) :
       ResultCell(k, g) = SourceCell(KeyColumnOf(k), r)

\* Row g of the result holds, in each key column, a value of the column's
\* type that is null or renders as the rows of group g do.
ResultKeysRenderRight ==
    \A g \in 1..gt.n_groups : \A k \in 1..gt.n_keys : \A r \in MemberRows(g) :
       /\ IsNull(ResultCell(k, g)) = IsNull(SourceCell(KeyColumnOf(k), r))
       /\ RenderedCell(ResultCell(k, g)) = RenderedCell(SourceCell(KeyColumnOf(k), r))

\* Row g of the result holds the aggregate of group g.
ResultAggregatesRight ==
    CASE op.name = "group_count" -> CountColumnRight
      [] op.name = "group_sum" /\ NumericTarget -> SumColumnRight
      [] op.name = "group_mean" /\ NumericTarget -> MeanColumnRight
      [] OTHER -> TRUE

\* C9: the table an aggregation returns has the key columns in the order
\* of the key names, then one Float64 aggregate column named "n" for count
\* or after the target column; it has one row per group, and row g holds
\* group g's key values and group g's aggregate.
C9_ResultTableLayout ==
    (IsAggregation /\ ResultIsTable) =>
       (ResultShapeRight /\ ResultKeysRight /\ ResultAggregatesRight)

\* C9 with the key values compared as rendered (a Float64 key that changed
\* within its rendering counts as kept).
C9_ResultTableLayoutRendered ==
    (IsAggregation /\ ResultIsTable) =>
       (ResultShapeRight /\ ResultKeysRenderRight /\ ResultAggregatesRight)

\* C9 without the key values: the shape of the table and its aggregates.
C9_ReturnedShapeRight ==
    (IsAggregation /\ ResultIsTable) => (ResultShapeRight /\ ResultAggregatesRight)

\* An aggregation whose target column resolves (count has none).
ResolvedAggregation ==
    \/ op.name = "group_count"
    \/ op.name \in {"group_sum", "group_mean"} /\ TargetExists

\* C10: whatever the type of a key column (Int64, Float64, Boolean or
\* String), the aggregation result has that key column with its original
\* schema type, and the column's data is of that type.
C10_KeyColumnsKeepTheirType ==
    ResolvedAggregation =>
       /\ ResultIsTable
       /\ \A k \in 1..gt.n_keys :
             /\ ResultTable.schema[k].type = table.schema[KeyColumnOf(k)].type
             /\ ResultTable.columns[k].dtype = table.schema[KeyColumnOf(k)].type
             /\ \A g \in 1..gt.n_groups :
                   ~IsNull(ResultCell(k, g)) =>
                      TypeOfCell(ResultCell(k, g)) = table.schema[KeyColumnOf(k)].type

\* C10 for the key types other than Boolean.
C10_NonBooleanKeysKeepTheirType ==
    (ResolvedAggregation /\ \A k \in 1..gt.n_keys : table.schema[KeyColumnOf(k)].type # "Boolean")
       => C10_KeyColumnsKeepTheirType

\* ----------------------------------------------------------------------
\* Properties of scalar arithmetic
\* ----------------------------------------------------------------------

ScalarOpDone ==
    op.name \in {"add_scalar", "multiply_scalar", "subtract_scalar", "divide_scalar"}

\* The position (1-based) of the column the call names, 0 when unresolved.
NamedIdx == garrow_schema_get_field_index(table.schema, op.col) + 1

\* The cells of the column the call names.
NamedCells == CellsOfColumn(table.columns[NamedIdx])

\* An Int64 value widened to a double; a double as it is.
Widen(cell) == IF cell[1] = "int" THEN <<"dbl", cell[2], 1>> ELSE cell

\* r is v op s for finite doubles v = v[2]/v[3] and s = s[2]/s[3], stated
\* on numerators and denominators.
OpHolds(op_code, v, s, r) ==
    CASE op_code = 0 -> IsFinite(r) /\ r[2] * v[3] * s[3] = (v[2] * s[3] + s[2] * v[3]) * r[3]
      [] op_code = 1 -> IsFinite(r) /\ r[2] * v[3] * s[3] = v[2] * s[2] * r[3]
      [] op_code = 2 -> IsFinite(r) /\ r[2] * v[3] * s[3] = (v[2] * s[3] - s[2] * v[3]) * r[3]
      [] OTHER -> IF s[2] # 0
                  THEN IsFinite(r) /\ r[2] * s[2] * v[3] = v[2] * s[3] * r[3]
                  ELSE r = (IF v[2] > 0 THEN PosInf ELSE IF v[2] < 0 THEN NegInf ELSE NaN)

NumericNamed == NamedIdx >= 1 /\ table.schema[NamedIdx].type \in {"Int64", "Float64"}

NonNumericNamed == NamedIdx >= 1 /\ table.schema[NamedIdx].type \in {"Boolean", "String"}

\* C12: scalar arithmetic on a Boolean or String column fails and returns
\* no table, whatever the column holds (also when it is empty or all null).
C12_NonNumericColumnFails ==
    (ScalarOpDone /\ NonNumericNamed) => result = None

\* What the code does: it fails when the column has a non-null value.
C12_NonNumericValueFails ==
    (ScalarOpDone /\ NonNumericNamed /\ \E i \in 1..Len(NamedCells) : ~IsNull(NamedCells[i]))
      => result = None

\* What the code returns for a Boolean or String column without a value:
\* the table with the column turned into an all-null Float64 column.
C12_NullColumnTurnsFloat64 ==
    (ScalarOpDone /\ NonNumericNamed /\ \A i \in 1..Len(NamedCells) : IsNull(NamedCells[i]))
      => /\ ResultIsTable
         /\ ResultTable.schema[NamedIdx].type = "Float64"
         /\ \A i \in 1..Len(NamedCells) :
               IsNull(CellsOfColumn(ResultTable.columns[NamedIdx])[i])

\* ----------------------------------------------------------------------
\* Properties of projection
\* ----------------------------------------------------------------------

ProjectDone == op.name = "project"

\* The positions (1-based) of the columns of the input named n.
Named(n) == {c \in 1..Len(table.schema) : table.schema[c].name = n}

\* The first column of the input named n.
FirstNamed(n) == CHOOSE c \in Named(n) : \A d \in Named(n) : c <= d

\* The result of a projection is, position by position, the column
\* FirstNamed picks: its field, its values and the column object itself.
ProjectsFirstNamed ==
    /\ ResultIsTable
    /\ Len(ResultTable.schema) = Len(op.keys)
    /\ Len(ResultTable.columns) = Len(op.keys)
    /\ \A i \in 1..Len(op.keys) :
          /\ ResultTable.schema[i] = table.schema[FirstNamed(op.keys[i])]
          /\ ResultTable.columns[i].dtype = table.columns[FirstNamed(op.keys[i])].dtype
          /\ CellsOfColumn(ResultTable.columns[i])
               = CellsOfColumn(table.columns[FirstNamed(op.keys[i])])
          /\ sharing[i] = FirstNamed(op.keys[i])

\* C14: project(T, names) with every name resolvable returns the table of
\* len(names) columns whose column i is the first column of T named
\* names[i] (name, type, values), in the given order, one position per
\* occurrence of a name, each a reference to the column of T and no copy.
C14_ProjectFirstMatch ==
    (ProjectDone /\ \A i \in 1..Len(op.keys) : Named(op.keys[i]) # {})
      => ProjectsFirstNamed

\* What holds of the code: the same when no listed name occurs twice in the
\* schema of T.
C14_ProjectUniqueNames ==
    (ProjectDone /\ \A i \in 1..Len(op.keys) : Cardinality(Named(op.keys[i])) = 1)
      => ProjectsFirstNamed

\* What the code does with a name that two columns of T have: it raises
\* the exception of an unresolved name.
C14_AmbiguousNameRaises ==
    (ProjectDone /\ \E i \in 1..Len(op.keys) : Cardinality(Named(op.keys[i])) > 1)
      => result = Failure("Column not found")

\* ----------------------------------------------------------------------
\* Unresolved names
\* ----------------------------------------------------------------------

\* The call named a column that no field of the schema has.
UnresolvedName ==
    \/ /\ op.name \in {"project", "group_by"}
       /\ \E i \in 1..Len(op.keys) : Named(op.keys[i]) = {}
    \/ /\ ScalarOpDone \/ op.name \in {"group_sum", "group_mean"}
       /\ Named(op.col) = {}

\* C13: project, scalar arithmetic, group_by, group_sum and group_mean fail
\* on a column name that is not in the schema, wherever it stands in the
\* list: the call answers with a failure (None, or the exception "Column
\* not found" of project) and produces no table and no Grouping.
C13_UnresolvedNameFails ==
    UnresolvedName =>
      /\ result = (IF op.name = "project" THEN Failure("Column not found") ELSE None)
      /\ sharing = NoSharing
      /\ op.name = "group_by" => (LivePtrs = {} /\ ~gt.live /\ ref_count = 1)

\* A projection whose second name is unresolved, on a table with rows.
C13_Witness ==
    /\ UnresolvedName
    /\ op.name = "project" /\ op.keys = <<"a", MissingName>>
    /\ NRows >= 1

\* ----------------------------------------------------------------------
\* Properties of filter
\* ----------------------------------------------------------------------

FilterDone == op.name = "filter"

\* The number of true entries among the first i entries of the mask.
TruesUpTo(mask, i) == Cardinality({j \in 1..i : mask[j]})

\* The index (1-based) of the k-th true entry of the mask.
KthTrue(mask, k) == CHOOSE i \in 1..Len(mask) : mask[i] /\ TruesUpTo(mask, i) = k

\* C15: for a mask of one entry per row, filter(T, m) has as many rows as
\* m has true entries, and its k-th row holds, in every column, the value
\* T has in that column at the k-th true entry of m (so the retained rows
\* keep their order and all columns retain the same rows).
C15_FilterRowAlignment ==
    (FilterDone /\ Len(op.mask) = NRows) =>
      /\ ResultIsTable
      /\ ResultTable.schema = table.schema
      /\ Len(ResultTable.columns) = Len(table.columns)
      /\ garrow_table_get_n_rows(ResultTable) = TruesUpTo(op.mask, Len(op.mask))
      /\ \A c \in 1..Len(table.columns) :
            LET out == CellsOfColumn(ResultTable.columns[c])
            IN  /\ Len(out) = TruesUpTo(op.mask, Len(op.mask))
                /\ \A k \in 1..Len(out) : out[k] = SourceCell(c, KthTrue(op.mask, k) - 1)

\* A filter that drops the first row of a table and keeps a later one.
C15_Witness ==
    /\ FilterDone /\ Len(op.mask) = NRows /\ ResultIsTable
    /\ NRows >= 2
    /\ ~op.mask[1] /\ op.mask[NRows]
    /\ SourceCell(1, 0) # SourceCell(1, NRows - 1)

\* C16: filter with a mask shorter or longer than the table has rows is a
\* failure: no table is returned (the mask is neither truncated nor
\* padded to make one).
C16_MaskLengthMismatchFails ==
    (FilterDone /\ Len(op.mask) # NRows) => (result = None /\ sharing = NoSharing)

\* A mask one short and a mask one long, on a table with rows.
C16_Witness ==
    /\ FilterDone /\ NRows >= 1 /\ result = None
    /\ Len(op.mask) \in {NRows - 1, NRows + 1}
    /\ \E i \in 1..Len(op.mask) : op.mask[i]

\* ----------------------------------------------------------------------
\* Properties of sort
\* ----------------------------------------------------------------------

SortDone == op.name = "sort"

\* The orders in which the rows 0 .. n-1 can be taken.
RowOrders(n) ==
    {p \in [1..n -> 0..(n - 1)] : \A i, j \in 1..n : i # j => p[i] # p[j]}

\* Row k of the result is row p[k] of the table, in every column.
RearrangedBy(p) ==
    \A c \in 1..Len(table.columns) :
       LET out == CellsOfColumn(ResultTable.columns[c])
       IN  /\ Len(out) = NRows
           /\ \A k \in 1..NRows : out[k] = SourceCell(c, p[k])

\* The values of the sorted column never step against the direction.
MonotonicIn(out, ascending) ==
    \A i, j \in 1..Len(out) :
       (i < j /\ ~IsNull(out[i]) /\ ~IsNull(out[j])) =>
          (IF ascending THEN ~CellLess(out[j], out[i]) ELSE ~CellLess(out[i], out[j]))

\* C17: sort(T, column, ascending) returns the rows of T rearranged by one
\* order of the row indices, the same in every column; the named column is
\* monotonic in the requested direction, and rows with equal keys keep
\* their original order.
C17_SortStablePermutation ==
    (SortDone /\ NamedIdx >= 1) =>
      /\ ResultIsTable
      /\ ResultTable.schema = table.schema
      /\ Len(ResultTable.columns) = Len(table.columns)
      /\ MonotonicIn(CellsOfColumn(ResultTable.columns[NamedIdx]), op.ascending)
      /\ \E p \in RowOrders(NRows) :
            /\ RearrangedBy(p)
            /\ \A i, j \in 1..NRows :
                  (i < j /\ SourceCell(NamedIdx, p[i]) = SourceCell(NamedIdx, p[j]))
                     => p[i] < p[j]

\* A descending sort that exchanges two rows which the other column tells
\* apart.
C17_Witness ==
    /\ SortDone /\ NamedIdx = 1 /\ ResultIsTable /\ ~op.ascending
    /\ NRows >= 2
    /\ ~IsNull(SourceCell(1, 0)) /\ ~IsNull(SourceCell(1, 1))
    /\ CellLess(SourceCell(1, 0), SourceCell(1, 1))
    /\ SourceCell(2, 0) # SourceCell(2, 1)

\* An ascending sort of rows with equal keys which the other column tells
\* apart.
C17_TieWitness ==
    /\ SortDone /\ NamedIdx = 1 /\ ResultIsTable /\ op.ascending
    /\ NRows >= 2
    /\ SourceCell(1, 0) = SourceCell(1, 1)
    /\ SourceCell(2, 0) # SourceCell(2, 1)

\* ----------------------------------------------------------------------
\* Lifetime of the table
\* ----------------------------------------------------------------------

\* The object is destroyed when its last reference is given up.
TableDestroyed == ref_count = 0

\* The references to the table that have not been released: the host's
\* handle and one for each living Grouping.
Holders == (IF table_handle THEN 1 ELSE 0) + Cardinality(LivePtrs)

\* C18: a Grouping holds a reference to its table from group_by to its
\* release: however the host's release of the table handle falls among
\* the creation, use and release of Groupings, the table is not destroyed
\* while a Grouping lives, and it is destroyed once the handle and every
\* Grouping have been released.
C18_TableOutlivesGroupings ==
    /\ LivePtrs # {} => ~TableDestroyed
    /\ table_handle => ~TableDestroyed
    /\ (~table_handle /\ LivePtrs = {}) => TableDestroyed
    /\ ref_count = Holders
    /\ gt.live => gt \in {gts[p] : p \in LivePtrs}

\* An aggregate taken from one of two living Groupings after the host has
\* released its table handle.
C18_Witness ==
    /\ ~table_handle
    /\ Cardinality(LivePtrs) = 2
    /\ op.name = "group_sum" /\ ResultIsTable
    /\ NRows >= 1

\* The table is destroyed after Groupings lived past the table handle.
C18_DestroyedWitness ==
    /\ TableDestroyed /\ op.name = "grouped_table_free"

\* ----------------------------------------------------------------------
\* Properties of the buffer export
\* ----------------------------------------------------------------------

ExportDone == op.name \in {"float64_array_to_bigarray", "int64_array_to_bigarray"}

\* The type of the column a view of the requested kind is a view of.
RequestedType == IF op.name = "float64_array_to_bigarray" THEN "Float64" ELSE "Int64"

\* The column the export path was asked for.
ExportedColumn == table.columns[NamedIdx]

ResultIsView == Len(result) = 3 /\ result[2] = "bigarray"

View == result[3]

\* C19: the export path answers with an absence when the column is in more
\* than one chunk and when its type is not the numeric type of the view
\* asked for.
C19_AbsentUnlessOneNumericChunk ==
    (ExportDone /\ (Len(ExportedColumn.chunks) # 1 \/ ExportedColumn.dtype # RequestedType))
      => result = None

\* What holds of the code: the path answers with an absence when the name
\* is unresolved, and with a view in every other case.
C19_AbsentOnlyWhenUnresolved ==
    /\ op.name = "get_column_data_by_name" => (result = None <=> NamedIdx < 1)
    /\ ExportDone => ResultIsView

\* C20: the view of a single-chunk Float64 (Int64) column has the length
\* of the column, holds the value of row i at element i for every i, and
\* is no copy, also when the array starts into its buffer or ends before
\* the buffer does.
C20_ViewEqualsColumn ==
    (ExportDone /\ Len(ExportedColumn.chunks) = 1 /\ ExportedColumn.dtype = RequestedType)
      => /\ ResultIsView
         /\ View.external
         /\ Len(View.data) = Len(CellsOfColumn(ExportedColumn))
         /\ \A i \in 1..Len(CellsOfColumn(ExportedColumn)) :
               ~IsNull(CellsOfColumn(ExportedColumn)[i])
                  => View.data[i] = CellsOfColumn(ExportedColumn)[i]

\* What holds of the code: the same for an array that is the whole of its
\* buffer.
C20_WholeBufferViewEqualsColumn ==
    (ExportDone /\ Len(ExportedColumn.chunks) = 1 /\ ExportedColumn.dtype = RequestedType
        /\ op.array.offset = 0 /\ op.array.slack = 0)
      => /\ ResultIsView
         /\ View.external
         /\ Len(View.data) = Len(CellsOfColumn(ExportedColumn))
         /\ \A i \in 1..Len(CellsOfColumn(ExportedColumn)) :
               ~IsNull(CellsOfColumn(ExportedColumn)[i])
                  => View.data[i] = CellsOfColumn(ExportedColumn)[i]

\* ----------------------------------------------------------------------
\* group_by with no key names
\* ----------------------------------------------------------------------

\* The step is a call of group_by with the list of no key names.
EmptyKeysCall == op'.name = "group_by" /\ op'.keys = <<>>

\* C21: group_by called with zero key names returns the failure (the
\* stub's one failure value, None), creates no Grouping (every pointer
\* holds after the call what it held before) and takes no reference on the
\* table (its reference count is the same after the call as before),
\* whatever Groupings are live and whether or not the call before was the
\* same one.
C21_EmptyKeyListFails ==
    [][EmptyKeysCall
         => /\ result' = None
            /\ gts' = gts
            /\ LivePtrs' = LivePtrs
            /\ ref_count' = ref_count
            /\ table' = table]_vars

\* group_by with no key names has been called while a Grouping was live and
\* the table still held by the host: the count is the holders' count.
C21_Witness ==
    /\ op.name = "group_by" /\ op.keys = <<>>
    /\ result = None
    /\ LivePtrs # {}
    /\ table_handle
    /\ ref_count = 1 + Cardinality(LivePtrs)

\* ----------------------------------------------------------------------
\* Scalar arithmetic: what it leaves alone
\* ----------------------------------------------------------------------

\* The step is a call of one of the four scalar arithmetic stubs.
ScalarCall ==
    op'.name \in {"add_scalar", "multiply_scalar", "subtract_scalar", "divide_scalar"}

\* The table a scalar operation returned has the columns of the input, in
\* their places: every column but the named one has the input's field (name
\* and type) and is the input's column itself, held by reference; the named
\* column is a new column in the same place under the same name.
ScalarFrameRight ==
    (ScalarOpDone /\ ResultIsTable) =>
      /\ NamedIdx >= 1
      /\ Len(ResultTable.schema) = Len(table.schema)
      /\ Len(ResultTable.columns) = Len(table.columns)
      /\ Len(sharing) = Len(table.columns)
      /\ \A i \in 1..Len(table.schema) :
            IF i = NamedIdx
            THEN /\ ResultTable.schema[i].name = op.col
                 /\ sharing[i] = 0
            ELSE /\ ResultTable.schema[i] = table.schema[i]
                 /\ ResultTable.columns[i] = table.columns[i]
                 /\ sharing[i] = i

\* C22: scalar arithmetic returns a new table that is the input in every
\* column other than the named one (same position, name and type, and the
\* input's own column shared by reference, not a copy), keeps the named
\* column's name and position, and leaves the input table (schema, columns,
\* values) and the references to it as they were.
C22_ScalarFrame ==
    [][ScalarCall
         => /\ table' = table
            /\ ref_count' = ref_count
            /\ table_handle' = table_handle
            /\ ScalarFrameRight']_vars

\* A scalar operation on the second column of a table whose first column
\* is a chunked String column with a null: a column that the operation
\* could not have rebuilt is in the result as it is in the input.
C22_Witness ==
    /\ ScalarOpDone /\ ResultIsTable
    /\ NamedIdx = 2
    /\ table.schema[1].type = "String"
    /\ Len(table.columns[1].chunks) >= 2
    /\ \E i \in 1..NRows : IsNull(SourceCell(1, i - 1))
    /\ sharing = <<1, 0>>
    /\ ResultTable.columns[1] = table.columns[1]
    /\ ResultTable.columns[2] # table.columns[2]

\* ----------------------------------------------------------------------
\* Key values through a Grouping
\* ----------------------------------------------------------------------

\* The type of key column k of the Grouping in the source table.
KeyType(k) == table.schema[KeyColumnOf(k)].type

\* The cell of row r (0-based) in key column k of the Grouping.
KeyCell(k, r) == SourceCell(KeyColumnOf(k), r)

\* Rows with different Float64 values in a key column are in different
\* groups.
Float64KeysApart ==
    \A k \in 1..gt.n_keys :
       KeyType(k) = "Float64" =>
         \A r1, r2 \in 0..(NRows - 1) :
            (/\ ~IsNull(KeyCell(k, r1)) /\ ~IsNull(KeyCell(k, r2))
             /\ KeyCell(k, r1) # KeyCell(k, r2)) => ~SameGroup(r1, r2)

\* The Float64 key value in row g of the result is the value the rows of
\* group g have.
Float64KeysReturned ==
    \A k \in 1..gt.n_keys :
       KeyType(k) = "Float64" =>
         \A g \in 1..gt.n_groups : \A r \in MemberRows(g) :
            ~IsNull(KeyCell(k, r)) => ResultCell(k, g) = KeyCell(k, r)

\* C23: Float64 key values are rendered for grouping in a round-trippable
\* form: two rows whose Float64 key values are different numbers are never
\* in the same group, and the Float64 key value written to the aggregation
\* result for a group is the key value of that group's rows.
C23_Float64KeysRoundTrip ==
    /\ GroupBySucceeded => Float64KeysApart
    /\ (IsAggregation /\ ResultIsTable) => Float64KeysReturned

\* The double is one that "%g" prints in full: reading its rendering back
\* gives the double.
PrintsInFull(cell) == g_ascii_strtod(FormatG(cell)) = cell

\* C23 for the Float64 values that "%g" prints in full.
C23_FullyPrintedKeysRoundTrip ==
    /\ GroupBySucceeded =>
         \A k \in 1..gt.n_keys :
            KeyType(k) = "Float64" =>
              \A r1, r2 \in 0..(NRows - 1) :
                 (/\ ~IsNull(KeyCell(k, r1)) /\ ~IsNull(KeyCell(k, r2))
                  /\ PrintsInFull(KeyCell(k, r1)) /\ PrintsInFull(KeyCell(k, r2))
                  /\ KeyCell(k, r1) # KeyCell(k, r2)) => ~SameGroup(r1, r2)
    /\ (IsAggregation /\ ResultIsTable) =>
         \A k \in 1..gt.n_keys :
            KeyType(k) = "Float64" =>
              \A g \in 1..gt.n_groups :
                 (\A r \in MemberRows(g) : ~IsNull(KeyCell(k, r)) /\ PrintsInFull(KeyCell(k, r)))
                    => \A r \in MemberRows(g) : ResultCell(k, g) = KeyCell(k, r)

\* The key types whose values an aggregation result can carry.
CarriedKeyTypes == {"Int64", "Float64", "String"}

\* C24: key values survive the round trip through a Grouping into the
\* aggregation result: for every group g and key column k of type Int64,
\* Float64 or String, the value in row g of result key column k is the
\* value the rows of group g have in key column k of the source table, and
\* it is null when that value is null.
C24_KeyValuesSurvive ==
    (IsAggregation /\ ResultIsTable) =>
       \A k \in 1..gt.n_keys :
          KeyType(k) \in CarriedKeyTypes =>
            \A g \in 1..gt.n_groups : \A r \in MemberRows(g) :
               /\ ResultCell(k, g) = KeyCell(k, r)
               /\ IsNull(KeyCell(k, r)) => IsNull(ResultCell(k, g))

\* The null part of C24 alone: a null key comes back as a null.
C24_NullKeysStayNull ==
    (IsAggregation /\ ResultIsTable) =>
       \A k \in 1..gt.n_keys :
          KeyType(k) \in CarriedKeyTypes =>
            \A g \in 1..gt.n_groups : \A r \in MemberRows(g) :
               IsNull(KeyCell(k, r)) => IsNull(ResultCell(k, g))

\* C24 for the Int64 key values that are not null.
C24_NonNullInt64KeysSurvive ==
    (IsAggregation /\ ResultIsTable) =>
       \A k \in 1..gt.n_keys :
          KeyType(k) = "Int64" =>
            \A g \in 1..gt.n_groups : \A r \in MemberRows(g) :
               ~IsNull(KeyCell(k, r)) => ResultCell(k, g) = KeyCell(k, r)
====
